---------------------------- MODULE Spec2Model ----------------------------
(***************************************************************************)
(* A model of task1.py: the address book (AddressBook, Record, Phone,      *)
(* Birthday), its date arithmetic and the command handlers wrapped by      *)
(* input_error.                                                            *)
(*                                                                         *)
(* Strings that the code inspects character by character (phones,          *)
(* birthdays) are sequences of one-character strings.  Strings the code    *)
(* only builds (messages) are sequences of fragments, the first fragment   *)
(* being the literal prefix of the message.  An optional value (None or a  *)
(* value) is a sequence of length 0 or 1.  A call's outcome is a record    *)
(* with the exception it raised (exc = "none" when it returned).           *)
(***************************************************************************)
EXTENDS Integers, Sequences, FiniteSets, TLC

VARIABLES data, today, op, args, out

vars == <<data, today, op, args, out>>

(***************************************************************************)
(* Bounds of the model.                                                    *)
(***************************************************************************)
MaxPhones == 2
NumYears == 2

(***************************************************************************)
(* Program constants.                                                      *)
(***************************************************************************)
PhoneLen == 10
WindowDays == 7
Saturday == 5
Sunday == 6

None == <<>>
Some(v) == <<v>>

(***************************************************************************)
(* Characters.  str.isdigit() is true of every character with the Unicode  *)
(* property Numeric_Type=Digit or Decimal: the ASCII digits and, among     *)
(* others, the superscript digits.                                         *)
(***************************************************************************)
AsciiDigits == {"0", "1", "2", "3", "4", "5", "6", "7", "8", "9"}
SuperscriptDigits == {"²", "³"}
UnicodeDigits == AsciiDigits \cup SuperscriptDigits

DigitVal(c) ==
    CASE c = "0" -> 0 [] c = "1" -> 1 [] c = "2" -> 2 [] c = "3" -> 3
      [] c = "4" -> 4 [] c = "5" -> 5 [] c = "6" -> 6 [] c = "7" -> 7
      [] c = "8" -> 8 [] c = "9" -> 9

\* str.isdigit(): non-empty and every character is a digit character.
isdigit(s) == Len(s) > 0 /\ \A i \in 1..Len(s) : s[i] \in UnicodeDigits

\* Phone.validate_phone
validate_phone(phone) == isdigit(phone) /\ Len(phone) = PhoneLen

(***************************************************************************)
(* Calendar dates (datetime.date): records [year, month, day].             *)
(***************************************************************************)
IsLeap(y) == y % 4 = 0 /\ (y % 100 /= 0 \/ y % 400 = 0)

DaysInMonth(y, m) ==
    IF m = 2 THEN (IF IsLeap(y) THEN 29 ELSE 28)
    ELSE IF m \in {4, 6, 9, 11} THEN 30 ELSE 31

MkDate(y, m, d) == [year |-> y, month |-> m, day |-> d]

\* The dates datetime.date accepts.
IsDate(y, m, d) == y >= 1 /\ y <= 9999 /\ m \in 1..12 /\ d >= 1 /\ d <= DaysInMonth(y, m)

DaysBeforeYear(y) == (y - 1) * 365 + (y - 1) \div 4 - (y - 1) \div 100 + (y - 1) \div 400

RECURSIVE DaysBeforeMonth(_, _)
DaysBeforeMonth(y, m) == IF m = 1 THEN 0 ELSE DaysBeforeMonth(y, m - 1) + DaysInMonth(y, m - 1)

\* date.toordinal()
ToOrdinal(dt) == DaysBeforeYear(dt.year) + DaysBeforeMonth(dt.year, dt.month) + dt.day

\* date.weekday(): Monday is 0, Sunday is 6.
Weekday(dt) == (ToOrdinal(dt) + 6) % 7

\* date < date, date <= date
DateLT(a, b) ==
    \/ a.year < b.year
    \/ a.year = b.year /\ a.month < b.month
    \/ a.year = b.year /\ a.month = b.month /\ a.day < b.day
DateLE(a, b) == a = b \/ DateLT(a, b)

NextDay(dt) ==
    IF dt.day < DaysInMonth(dt.year, dt.month) THEN MkDate(dt.year, dt.month, dt.day + 1)
    ELSE IF dt.month < 12 THEN MkDate(dt.year, dt.month + 1, 1)
    ELSE MkDate(dt.year + 1, 1, 1)

\* date + timedelta(days=n), n >= 0
RECURSIVE AddDays(_, _)
AddDays(dt, n) == IF n = 0 THEN dt ELSE AddDays(NextDay(dt), n - 1)

Returned(v) == [exc |-> "none", val |-> v, msg |-> "", cause |-> "none"]
Raised(e, m, c) == [exc |-> e, val |-> None, msg |-> m, cause |-> c]

\* date.replace(year=y): ValueError when the month has no such day in year y.
ReplaceYear(dt, y) ==
    IF IsDate(y, dt.month, dt.day) THEN Returned(MkDate(y, dt.month, dt.day))
    ELSE Raised("ValueError", "day is out of range for month", "internal")

(***************************************************************************)
(* datetime.strptime(s, "%d.%m.%Y"): the text must be D.M.Y in full, D one *)
(* of 3[0-1] | [1-2]\d | 0[1-9] | [1-9] | space [1-9], M one of 1[0-2] |   *)
(* 0[1-9] | [1-9], Y four digits; then the date must exist.  The inputs    *)
(* of the model write their digits in ASCII.                               *)
(***************************************************************************)
DotPos(s) == {i \in 1..Len(s) : s[i] = "."}

AllAscii(f) == \A i \in 1..Len(f) : f[i] \in AsciiDigits

RECURSIVE NumVal(_)
NumVal(f) == IF Len(f) = 0 THEN 0 ELSE 10 * NumVal(SubSeq(f, 1, Len(f) - 1)) + DigitVal(f[Len(f)])

DayField(f) ==
    \/ Len(f) = 1 /\ AllAscii(f) /\ NumVal(f) >= 1
    \/ Len(f) = 2 /\ AllAscii(f) /\ NumVal(f) >= 1 /\ NumVal(f) <= 31
    \/ Len(f) = 2 /\ f[1] = " " /\ f[2] \in AsciiDigits /\ f[2] /= "0"

MonthField(f) ==
    \/ Len(f) = 1 /\ AllAscii(f) /\ NumVal(f) >= 1
    \/ Len(f) = 2 /\ AllAscii(f) /\ NumVal(f) >= 1 /\ NumVal(f) <= 12

YearField(f) == Len(f) = 4 /\ AllAscii(f)

FieldVal(f) == IF f[1] = " " THEN NumVal(Tail(f)) ELSE NumVal(f)

strptime(s) ==
    IF Cardinality(DotPos(s)) /= 2
    THEN Raised("ValueError", "time data does not match format", "validation")
    ELSE LET p1 == CHOOSE i \in DotPos(s) : \A j \in DotPos(s) : i <= j
             p2 == CHOOSE i \in DotPos(s) : \A j \in DotPos(s) : j <= i
             fd == SubSeq(s, 1, p1 - 1)
             fm == SubSeq(s, p1 + 1, p2 - 1)
             fy == SubSeq(s, p2 + 1, Len(s))
         IN  IF ~(DayField(fd) /\ MonthField(fm) /\ YearField(fy))
             THEN Raised("ValueError", "time data does not match format", "validation")
             ELSE IF ~IsDate(NumVal(fy), NumVal(fm), FieldVal(fd))
             THEN Raised("ValueError", "day is out of range for month", "validation")
             ELSE Returned(MkDate(NumVal(fy), NumVal(fm), FieldVal(fd)))

\* Birthday.validate_birthday
validate_birthday(birthday) == strptime(birthday).exc = "none"


(***************************************************************************)
(* Field values.  Phone(value) and Birthday(value) return the value they   *)
(* wrap or raise ValueError.                                               *)
(***************************************************************************)
Phone(value) ==
    IF ~validate_phone(value)
    THEN Raised("ValueError", "Phone number must contain exactly 10 digits.", "validation")
    ELSE Returned(value)

Birthday(value) ==
    IF ~validate_birthday(value)
    THEN Raised("ValueError", "Birthday must be in DD.MM.YYYY format.", "validation")
    ELSE Returned(value)

(***************************************************************************)
(* Record.  A phone object is identified by its place in self.phones: no   *)
(* two places hold the same object, and Field defines no __eq__, so        *)
(* list.index and list.remove find an object at its own place.             *)
(***************************************************************************)
Record(name) == [name |-> name, phones |-> <<>>, birthday |-> None]

\* A mutator's result: the record afterwards and the call's outcome.
Done(rec, o) == [rec |-> rec, out |-> o]

\* Record.find_phone: the place of the first phone whose value is `phone`, or None.
find_phone_last(rec, phone) ==
    LET hits == {i \in 1..Len(rec.phones) : rec.phones[i] = phone}
    IN  IF hits = {} THEN None ELSE Some(CHOOSE i \in hits : \A j \in hits : j <= i)
find_phone(rec, phone) ==
    LET hits == {i \in 1..Len(rec.phones) : rec.phones[i] = phone}
    IN  IF hits = {} THEN None ELSE Some(CHOOSE i \in hits : \A j \in hits : i <= j)

\* Record.add_phone
add_phone(rec, phone) ==
    LET p == Phone(phone)
    IN  IF p.exc /= "none" THEN Done(rec, p)
        ELSE Done([rec EXCEPT !.phones = Append(@, p.val)], Returned(None))

RemoveAt(s, i) == SubSeq(s, 1, i - 1) \o SubSeq(s, i + 1, Len(s))

\* Record.remove_phone
remove_phone(rec, phone) ==
    LET phone_obj == find_phone(rec, phone)
    IN  IF phone_obj /= None
        THEN Done([rec EXCEPT !.phones = RemoveAt(@, phone_obj[1])], Returned(None))
        ELSE Done(rec, Raised("ValueError", "Phone number not found.", "lookup"))

\* Record.edit_phone
edit_phone_clear_first(rec, old_phone, new_phone) ==
    LET phone_obj == find_phone(rec, old_phone)
    IN  IF phone_obj /= None
        THEN LET p == Phone(new_phone)
             IN  IF p.exc /= "none"
                 THEN Done([rec EXCEPT !.phones = RemoveAt(@, phone_obj[1])], p)
                 ELSE Done([rec EXCEPT !.phones[phone_obj[1]] = p.val], Returned(None))
        ELSE Done(rec, Raised("ValueError", "Old phone number not found.", "lookup"))
edit_phone(rec, old_phone, new_phone) ==
    LET phone_obj == find_phone(rec, old_phone)
    IN  IF phone_obj /= None
        THEN LET p == Phone(new_phone)
             IN  IF p.exc /= "none" THEN Done(rec, p)
                 ELSE Done([rec EXCEPT !.phones[phone_obj[1]] = p.val], Returned(None))
        ELSE Done(rec, Raised("ValueError", "Old phone number not found.", "lookup"))

\* Record.add_birthday
add_birthday(rec, birthday) ==
    LET b == Birthday(birthday)
    IN  IF b.exc /= "none" THEN Done(rec, b)
        ELSE Done([rec EXCEPT !.birthday = Some(b.val)], Returned(None))

\* Record.days_to_birthday, with `now` the value of datetime.today().date()
days_to_birthday(rec, now) ==
    IF rec.birthday = None THEN Returned(None)
    ELSE LET this == ReplaceYear(strptime(rec.birthday[1]).val, now.year)
         IN  IF this.exc /= "none" THEN this
             ELSE IF DateLT(this.val, now)
             THEN LET next == ReplaceYear(this.val, now.year + 1)
                  IN  IF next.exc /= "none" THEN next
                      ELSE Returned(Some(ToOrdinal(next.val) - ToOrdinal(now)))
             ELSE Returned(Some(ToOrdinal(this.val) - ToOrdinal(now)))

(***************************************************************************)
(* AddressBook.  self.data is a dict: a sequence of entries [key, rec] in  *)
(* insertion order, no key twice.                                          *)
(***************************************************************************)
Keys(d) == {d[i].key : i \in 1..Len(d)}
PosOf(d, key) == CHOOSE i \in 1..Len(d) : d[i].key = key

\* dict: d[key] = rec
SetItem(d, key, rec) ==
    IF key \in Keys(d) THEN [d EXCEPT ![PosOf(d, key)].rec = rec]
    ELSE Append(d, [key |-> key, rec |-> rec])

\* AddressBook.add_record
add_record(d, rec) == SetItem(d, rec.name, rec)

\* AddressBook.find
find(d, name) == IF name \in Keys(d) THEN Some(d[PosOf(d, name)].rec) ELSE None

\* AddressBook.delete: the book afterwards and the call's outcome.
Book(d, o) == [data |-> d, out |-> o]

delete_first(d, name) ==
    IF name \in Keys(d) THEN Book(Tail(d), Returned(None))
    ELSE Book(d, Raised("ValueError", "Name not found in address book.", "lookup"))
delete(d, name) ==
    IF name \in Keys(d) THEN Book(RemoveAt(d, PosOf(d, name)), Returned(None))
    ELSE Book(d, Raised("ValueError", "Name not found in address book.", "lookup"))

\* The weekend shift of get_upcoming_birthdays.
Adjusted_saturday_plus_one(bday) ==
    IF Weekday(bday) = Saturday THEN AddDays(bday, 1)
    ELSE IF Weekday(bday) = Sunday THEN AddDays(bday, 1)
    ELSE bday
Adjusted(bday) ==
    IF Weekday(bday) = Saturday THEN AddDays(bday, 2)
    ELSE IF Weekday(bday) = Sunday THEN AddDays(bday, 1)
    ELSE bday

\* The loop of get_upcoming_birthdays from entry i on, `acc` the list so far.
RECURSIVE UpcomingFrom(_, _, _, _)
UpcomingFrom(d, now, i, acc) ==
    IF i > Len(d) THEN Returned(acc)
    ELSE LET record == d[i].rec
         IN  IF record.birthday = None THEN UpcomingFrom(d, now, i + 1, acc)
             ELSE LET this == ReplaceYear(strptime(record.birthday[1]).val, now.year)
                  IN  IF this.exc /= "none" THEN this
                      ELSE IF DateLE(now, this.val) /\ DateLE(this.val, AddDays(now, WindowDays))
                      THEN UpcomingFrom(d, now, i + 1,
                               Append(acc, [name |-> record.name, birthday |-> Adjusted(this.val)]))
                      ELSE UpcomingFrom(d, now, i + 1, acc)

\* AddressBook.get_upcoming_birthdays, with `now` the value of datetime.today().date()
get_upcoming_birthdays(d, now) == UpcomingFrom(d, now, 1, <<>>)

(***************************************************************************)
(* Messages.  A text is a sequence of fragments; its first fragment is the *)
(* literal the string starts with.                                         *)
(***************************************************************************)
Ret(text, cause) == [exc |-> "none", val |-> text, msg |-> "", cause |-> cause]

\* sep.join(items), each item one fragment
RECURSIVE Join(_, _)
Join(items, sep) ==
    IF Len(items) = 0 THEN <<>>
    ELSE IF Len(items) = 1 THEN <<items[1]>>
    ELSE <<items[1], sep>> \o Join(Tail(items), sep)

DigitChar(n) ==
    CASE n = 0 -> "0" [] n = 1 -> "1" [] n = 2 -> "2" [] n = 3 -> "3" [] n = 4 -> "4"
      [] n = 5 -> "5" [] n = 6 -> "6" [] n = 7 -> "7" [] n = 8 -> "8" [] n = 9 -> "9"

\* date.strftime('%d.%m.%Y'), for a year of four digits
strftime(dt) ==
    << DigitChar(dt.day \div 10), DigitChar(dt.day % 10), ".",
       DigitChar(dt.month \div 10), DigitChar(dt.month % 10), ".",
       DigitChar(dt.year \div 1000), DigitChar((dt.year \div 100) % 10),
       DigitChar((dt.year \div 10) % 10), DigitChar(dt.year % 10) >>

\* Record.__str__
RecordStr(rec) ==
    <<rec.name, ": ">>
      \o (IF Len(rec.phones) > 0 THEN Join(rec.phones, ", ") ELSE <<"No phones">>)
      \o (IF rec.birthday /= None THEN <<", Birthday: ", rec.birthday[1]>> ELSE <<>>)

RECURSIVE RecordLines(_, _)
RecordLines(d, i) ==
    IF i > Len(d) THEN <<>>
    ELSE RecordStr(d[i].rec) \o (IF i < Len(d) THEN <<"\n">> ELSE <<>>) \o RecordLines(d, i + 1)

\* AddressBook.__str__
BookStr(d) == <<"AddressBook:\n">> \o (IF Len(d) > 0 THEN RecordLines(d, 1) ELSE <<"No records">>)

(***************************************************************************)
(* input_error: the wrapper turns ValueError, IndexError and KeyError into *)
(* a returned text; any other exception propagates.  The cause of the      *)
(* failure is kept beside the text.                                        *)
(***************************************************************************)
input_error(r) ==
    IF r.out.exc = "ValueError" THEN Book(r.data, Ret(<<"Error: ", r.out.msg>>, r.out.cause))
    ELSE IF r.out.exc = "IndexError"
    THEN Book(r.data, Ret(<<"Error: ", "Not enough arguments provided.">>, r.out.cause))
    ELSE IF r.out.exc = "KeyError"
    THEN Book(r.data, Ret(<<"Error: ", "Contact not found.">>, r.out.cause))
    ELSE r

\* The record object found under `name`, changed in place.
Mutated(d, name, rec) == [d EXCEPT ![PosOf(d, name)].rec = rec]

(***************************************************************************)
(* The command handlers, before input_error wraps them.                    *)
(***************************************************************************)
handle_add_record_first(a, d) ==
    IF Len(a) = 2
    THEN LET name == a[1]
             phone == a[2]
             record == find(d, name)
         IN  IF record /= None
             THEN LET r == add_phone(record[1], phone)
                  IN  IF r.out.exc /= "none" THEN Book(Mutated(d, name, r.rec), r.out)
                      ELSE Book(Mutated(d, name, r.rec),
                                Ret(<<"Contact '", name, "' added with phone ", phone, ".">>, "none"))
             ELSE LET r == add_phone(Record(name), phone)
                  IN  IF r.out.exc /= "none" THEN Book(add_record(d, Record(name)), r.out)
                      ELSE Book(add_record(d, r.rec),
                                Ret(<<"Contact '", name, "' added with phone ", phone, ".">>, "none"))
    ELSE Book(d, Ret(<<"Error: ", "'add' command should have two arguments [name] [phone]">>, "usage"))
handle_add_inner(a, d) ==
    IF Len(a) = 2
    THEN LET name == a[1]
             phone == a[2]
             record == find(d, name)
         IN  IF record /= None
             THEN LET r == add_phone(record[1], phone)
                  IN  IF r.out.exc /= "none" THEN Book(Mutated(d, name, r.rec), r.out)
                      ELSE Book(Mutated(d, name, r.rec),
                                Ret(<<"Contact '", name, "' added with phone ", phone, ".">>, "none"))
             ELSE LET r == add_phone(Record(name), phone)
                  IN  IF r.out.exc /= "none" THEN Book(d, r.out)
                      ELSE Book(add_record(d, r.rec),
                                Ret(<<"Contact '", name, "' added with phone ", phone, ".">>, "none"))
    ELSE Book(d, Ret(<<"Error: ", "'add' command should have two arguments [name] [phone]">>, "usage"))

handle_change_inner(a, d) ==
    IF Len(a) = 3
    THEN LET name == a[1]
             old_phone == a[2]
             new_phone == a[3]
             record == find(d, name)
         IN  IF record /= None
             THEN LET r == edit_phone(record[1], old_phone, new_phone)
                  IN  IF r.out.exc = "ValueError"
                      THEN Book(Mutated(d, name, r.rec), Ret(<<r.out.msg>>, r.out.cause))
                      ELSE Book(Mutated(d, name, r.rec),
                                Ret(<<"Phone number for '", name, "' changed from ", old_phone,
                                      " to ", new_phone, ".">>, "none"))
             ELSE Book(d, Ret(<<"Error: ", "Contact '", name, "' not found.">>, "lookup"))
    ELSE Book(d, Ret(<<"Error: ",
                       "'change' command should have three arguments [name] [old phone] [new phone]">>,
                     "usage"))

handle_phone_inner(a, d) ==
    IF Len(a) = 1
    THEN LET name == a[1]
             record == find(d, name)
         IN  IF record /= None
             THEN Book(d, Ret(<<"Phone numbers for ", name, ": ">> \o Join(record[1].phones, ", "),
                              "none"))
             ELSE Book(d, Ret(<<"Error: ", "Contact '", name, "' not found.">>, "lookup"))
    ELSE Book(d, Ret(<<"Error: ", "'phone' command should have one argument [name]">>, "usage"))

handle_all_inner(d) == Book(d, Ret(BookStr(d), "none"))

handle_add_birthday_inner(a, d) ==
    IF Len(a) = 2
    THEN LET name == a[1]
             birthday == a[2]
             record == find(d, name)
         IN  IF record /= None
             THEN LET r == add_birthday(record[1], birthday)
                  IN  IF r.out.exc = "ValueError"
                      THEN Book(Mutated(d, name, r.rec), Ret(<<r.out.msg>>, r.out.cause))
                      ELSE Book(Mutated(d, name, r.rec),
                                Ret(<<"Birthday for '", name, "' set to ", birthday, ".">>, "none"))
             ELSE Book(d, Ret(<<"Error: ", "Contact '", name, "' not found.">>, "lookup"))
    ELSE Book(d, Ret(<<"Error: ",
                       "'add-birthday' command should have two arguments [name] [birthday]">>,
                     "usage"))

handle_show_birthday_inner(a, d) ==
    IF Len(a) = 1
    THEN LET name == a[1]
             record == find(d, name)
         IN  IF record /= None /\ record[1].birthday /= None
             THEN Book(d, Ret(<<"Birthday for ", name, " is ", record[1].birthday[1], ".">>, "none"))
             ELSE Book(d, Ret(<<"Error: ", "Contact '", name, "' not found or has no birthday set.">>,
                              "lookup"))
    ELSE Book(d, Ret(<<"Error: ", "'show-birthday' command should have one argument [name]">>,
                     "usage"))

RECURSIVE BirthdayLines(_, _)
BirthdayLines(entries, i) ==
    IF i > Len(entries) THEN <<>>
    ELSE <<entries[i].name, "'s birthday celebration is on ", strftime(entries[i].birthday)>>
           \o (IF i < Len(entries) THEN <<"\n">> ELSE <<>>) \o BirthdayLines(entries, i + 1)

handle_birthdays_inner(d, now) ==
    LET upcoming_birthdays == get_upcoming_birthdays(d, now)
    IN  IF upcoming_birthdays.exc /= "none" THEN Book(d, upcoming_birthdays)
        ELSE IF Len(upcoming_birthdays.val) > 0
        THEN Book(d, Ret(BirthdayLines(upcoming_birthdays.val, 1), "none"))
        ELSE Book(d, Ret(<<"No birthdays in the next 7 days.">>, "none"))

\* The handlers as main() calls them: @input_error applied.
handle_add(a, d) == input_error(handle_add_inner(a, d))
handle_change(a, d) == input_error(handle_change_inner(a, d))
handle_phone(a, d) == input_error(handle_phone_inner(a, d))
handle_all(d) == input_error(handle_all_inner(d))
handle_add_birthday(a, d) == input_error(handle_add_birthday_inner(a, d))
handle_show_birthday(a, d) == input_error(handle_show_birthday_inner(a, d))
handle_birthdays(d, now) == input_error(handle_birthdays_inner(d, now))

(***************************************************************************)
(* Inputs.                                                                 *)
(***************************************************************************)
Names == {"Alice", "Bob"}

P1 == <<"1", "1", "1", "1", "1", "1", "1", "1", "1", "1">>
P2 == <<"2", "2", "2", "2", "2", "2", "2", "2", "2", "2">>
PSup == <<"²", "²", "²", "²", "²", "²", "²", "²", "²", "²">>
PShort == <<"1", "2", "3">>
PAlpha == <<"1", "2", "3", "4", "5", "a", "b", "c", "d", "e">>

B1506 == <<"1", "5", ".", "0", "6", ".", "1", "9", "9", "0">>
B2902 == <<"2", "9", ".", "0", "2", ".", "2", "0", "0", "0">>
B2802 == <<"2", "8", ".", "0", "2", ".", "1", "9", "9", "9">>
B0103 == <<"0", "1", ".", "0", "3", ".", "1", "9", "9", "0">>
B3112 == <<"3", "1", ".", "1", "2", ".", "1", "9", "8", "5">>
B0101 == <<"1", ".", "1", ".", "2", "0", "0", "1">>
BNoDay == <<"3", "1", ".", "0", "2", ".", "2", "0", "2", "4">>
BIso == <<"1", "9", "9", "0", "-", "0", "6", "-", "1", "5">>

\* Arguments of the record and address-book operations.
CorePhones == {P1, P2, PAlpha}
CoreBirthdays == {B1506, BNoDay, BIso}

\* Arguments of the commands.
CommandPhones == {P1, PSup, PShort}
CommandBirthdays == {B1506, B2902, BNoDay}

\* The clock when the commands run.
StartDay == MkDate(2023, 6, 10)

\* Birthdays and clock values of the date computations.
DateBirthdays == {B1506, B2902, B2802, B0103, B3112, B0101}
Years == 2023 .. (2022 + NumYears)
Todays == {MkDate(y, m, dd) : y \in Years, m \in 1..12, dd \in 1..31} \cap
          {dt \in [year : Years, month : 1..12, day : 1..31] : IsDate(dt.year, dt.month, dt.day)}

Bounded(d) == \A i \in 1..Len(d) : Len(d[i].rec.phones) <= MaxPhones

(***************************************************************************)
(* A step: operation o called with arguments a leaves the book d and the   *)
(* outcome r.                                                              *)
(***************************************************************************)
Step(o, a, d, r) ==
    /\ Bounded(d)
    /\ data' = d
    /\ op' = o
    /\ args' = a
    /\ out' = r
    /\ UNCHANGED today

Init ==
    /\ data = <<>>
    /\ today = StartDay
    /\ op = "init"
    /\ args = <<>>
    /\ out = Returned(None)

(***************************************************************************)
(* The operations of Record and AddressBook, called on the records the     *)
(* book holds.                                                             *)
(***************************************************************************)
AddRecord(name) == Step("add_record", <<name>>, add_record(data, Record(name)), Returned(None))

Find(name) == Step("find", <<name>>, data, Returned(find(data, name)))

Delete(name) ==
    LET r == delete(data, name) IN Step("delete", <<name>>, r.data, r.out)

OnRecord(o, name, a, r) ==
    /\ name \in Keys(data)
    /\ Step(o, <<name>> \o a, Mutated(data, name, r.rec), r.out)

AddPhone(name, phone) ==
    /\ name \in Keys(data)
    /\ OnRecord("add_phone", name, <<phone>>, add_phone(find(data, name)[1], phone))

RemovePhone(name, phone) ==
    /\ name \in Keys(data)
    /\ OnRecord("remove_phone", name, <<phone>>, remove_phone(find(data, name)[1], phone))

EditPhone(name, old, new) ==
    /\ name \in Keys(data)
    /\ OnRecord("edit_phone", name, <<old, new>>, edit_phone(find(data, name)[1], old, new))

FindPhone(name, phone) ==
    /\ name \in Keys(data)
    /\ Step("find_phone", <<name, phone>>, data, Returned(find_phone(find(data, name)[1], phone)))

AddBirthday(name, birthday) ==
    /\ name \in Keys(data)
    /\ OnRecord("add_birthday", name, <<birthday>>, add_birthday(find(data, name)[1], birthday))

Next ==
    \/ \E name \in Names : AddRecord(name)
    \/ \E name \in Names : Find(name)
    \/ \E name \in Names : Delete(name)
    \/ \E name \in Names, phone \in CorePhones : AddPhone(name, phone)
    \/ \E name \in Names, phone \in CorePhones : RemovePhone(name, phone)
    \/ \E name \in Names, old \in CorePhones, new \in CorePhones : EditPhone(name, old, new)
    \/ \E name \in Names, phone \in CorePhones : FindPhone(name, phone)
    \/ \E name \in Names, birthday \in CoreBirthdays : AddBirthday(name, birthday)

Spec == Init /\ [][Next]_vars

(***************************************************************************)
(* The commands of main(), each a call of its handler.  args keeps the     *)
(* arguments of Record and AddressBook calls only: a command's arguments   *)
(* are in the text it returns.                                             *)
(***************************************************************************)
Command(o, r) == Step(o, <<>>, r.data, r.out)

\* Argument lists: the right count and wrong counts.
AddArgs == {<<n, p>> : n \in Names, p \in CommandPhones} \cup {<<>>, <<"Alice">>, <<"Alice", P1, P1>>}
ChangeArgs ==
    {<<n, p, q>> : n \in Names, p \in CommandPhones, q \in CommandPhones}
      \cup {<<>>, <<"Alice", P1>>}
NameArgs == {<<n>> : n \in Names} \cup {<<>>, <<"Alice", P1>>}
AddBirthdayArgs ==
    {<<n, b>> : n \in Names, b \in CommandBirthdays} \cup {<<>>, <<"Alice">>, <<"Alice", B1506, B1506>>}

HandleAdd(a) == Command("add", handle_add(a, data))
HandleChange(a) == Command("change", handle_change(a, data))
HandlePhone(a) == Command("phone", handle_phone(a, data))
HandleAll == Command("all", handle_all(data))
HandleAddBirthday(a) == Command("add-birthday", handle_add_birthday(a, data))
HandleShowBirthday(a) == Command("show-birthday", handle_show_birthday(a, data))
HandleBirthdays == Command("birthdays", handle_birthdays(data, today))

NextHandlers ==
    \/ \E a \in AddArgs : HandleAdd(a)
    \/ \E a \in ChangeArgs : HandleChange(a)
    \/ \E a \in NameArgs : HandlePhone(a)
    \/ HandleAll
    \/ \E a \in AddBirthdayArgs : HandleAddBirthday(a)
    \/ \E a \in NameArgs : HandleShowBirthday(a)
    \/ HandleBirthdays

SpecHandlers == Init /\ [][NextHandlers]_vars

(***************************************************************************)
(* The date computations, from every book of records with birthdays and    *)
(* every clock value.                                                      *)
(***************************************************************************)
BirthdayRecords(name) ==
    {[name |-> name, phones |-> <<>>, birthday |-> b] : b \in {None} \cup {Some(x) : x \in DateBirthdays}}

\* Books whose records were added under their names, "Alice" first.
DateBooks ==
    {<<>>}
      \cup {<<[key |-> n, rec |-> r]>> : n \in Names, r \in UNION {BirthdayRecords(m) : m \in Names}}
      \cup {<<[key |-> "Alice", rec |-> r], [key |-> "Bob", rec |-> q]>> :
               r \in BirthdayRecords("Alice"), q \in BirthdayRecords("Bob")}

InitDates ==
    /\ data \in {d \in DateBooks : \A i \in 1..Len(d) : d[i].key = d[i].rec.name}
    /\ today \in Todays
    /\ op = "init"
    /\ args = <<>>
    /\ out = Returned(None)

GetUpcomingBirthdays ==
    Step("get_upcoming_birthdays", <<>>, data, get_upcoming_birthdays(data, today))

DaysToBirthday(name) ==
    /\ name \in Keys(data)
    /\ Step("days_to_birthday", <<name>>, data, days_to_birthday(find(data, name)[1], today))

NextDates ==
    \/ GetUpcomingBirthdays
    \/ \E name \in Names : DaysToBirthday(name)

SpecDates == InitDates /\ [][NextDates]_vars

(***************************************************************************)
(* What the claims speak of, stated apart from the operations above.       *)
(***************************************************************************)
Range(f) == {f[i] : i \in 1..Len(f)}

\* A string of exactly 10 decimal digits.
TenDecimalDigits(p) == Len(p) = 10 /\ \A i \in 1..Len(p) : p[i] \in AsciiDigits

\* The phones of the record stored under name in book d.
PhonesOf(d, name) == d[CHOOSE i \in 1..Len(d) : d[i].key = name].rec.phones

\* The ordinals of the occurrences of a birthday's month and day in year y:
\* one ordinal, or none when year y has no such day.
Occurrences(birthday, y) ==
    LET b == strptime(birthday).val
    IN  {ToOrdinal(MkDate(y, b.month, b.day)) : x \in {z \in {0} : b.day <= DaysInMonth(y, b.month)}}

\* The names get_upcoming_birthdays reported, if it returned a report.
Reported == IF out.exc = "none" THEN {out.val[i].name : i \in 1..Len(out.val)} ELSE {}

InWindow(rec) ==
    /\ rec.birthday /= None
    /\ \E o \in Occurrences(rec.birthday[1], today.year) :
          ToOrdinal(today) <= o /\ o <= ToOrdinal(today) + 7

\* C1: after get_upcoming_birthdays, a record is in the report if and only if
\* it has a birthday whose occurrence in today's year lies in
\* [today, today + 7 days].
C1_ReportIffInWindow ==
    op = "get_upcoming_birthdays" =>
        \A i \in 1..Len(data) : (data[i].rec.name \in Reported) <=> InWindow(data[i].rec)

\* C2: every reported date is the occurrence in today's year moved 2 days on
\* from a Saturday and 1 day on from a Sunday, and the occurrence itself
\* otherwise; it is no Saturday or Sunday and lies in [today, today + 9 days].
C2_AdjustedDates ==
    (op = "get_upcoming_birthdays" /\ out.exc = "none") =>
        \A i \in 1..Len(out.val) :
            LET e == out.val[i]
                adj == ToOrdinal(e.birthday)
            IN  /\ IsDate(e.birthday.year, e.birthday.month, e.birthday.day)
                /\ \E k \in 1..Len(data) :
                      /\ data[k].rec.name = e.name
                      /\ data[k].rec.birthday /= None
                      /\ \E o \in Occurrences(data[k].rec.birthday[1], today.year) :
                            adj = o + (IF (o + 6) % 7 = 5 THEN 2 ELSE IF (o + 6) % 7 = 6 THEN 1 ELSE 0)
                /\ (adj + 6) % 7 \notin {5, 6}
                /\ ToOrdinal(today) <= adj
                /\ adj <= ToOrdinal(today) + 9

\* A Saturday occurrence 7 days from today, reported as the Monday 9 days on.
C2_Witness ==
    /\ op = "get_upcoming_birthdays"
    /\ out.exc = "none"
    /\ \E i \in 1..Len(out.val) :
          /\ ToOrdinal(out.val[i].birthday) = ToOrdinal(today) + 9
          /\ Weekday(out.val[i].birthday) = 0

\* C3: a failed edit_phone leaves the record's phones, name and birthday, and
\* the rest of the book, as they were.
C3_EditPhoneFailsClean ==
    [][(op' = "edit_phone" /\ out'.exc /= "none") => data' = data]_vars

\* edit_phone failed on an invalid new phone although old was among the phones.
C3_Witness ==
    /\ op = "edit_phone"
    /\ out.exc /= "none"
    /\ ~TenDecimalDigits(args[3])
    /\ args[2] \in Range(PhonesOf(data, args[1]))

Commands == {"add", "change", "phone", "all", "add-birthday", "show-birthday", "birthdays"}

\* C4: every command handler returns a text and raises nothing, and the text
\* of a validation failure, a lookup failure or a wrong argument count begins
\* with "Error: ".
C4_HandlersReturnErrorPrefix ==
    op \in Commands =>
        /\ out.exc = "none"
        /\ Len(out.val) > 0
        /\ out.cause \in {"validation", "lookup", "usage"} => out.val[1] = "Error: "

\* C5: two failing calls, one a lookup failure and one an invalid input, do
\* not raise the same kind of error.
C5_DistinctErrorKinds ==
    [][(out.exc /= "none" /\ out'.exc /= "none" /\ out.cause /= out'.cause)
          => out.exc /= out'.exc]_vars

\* C6: delete of an absent name fails and leaves the book as it was; delete of
\* a present name removes that entry and leaves every other entry as it was;
\* and a name absent from the book only comes back by add_record of that name.
C6_Delete ==
    [][/\ op' = "delete" =>
            LET name == args'[1]
            IN  IF name \notin Keys(data)
                THEN out'.exc /= "none" /\ data' = data
                ELSE /\ out'.exc = "none"
                     /\ \A i \in 1..Len(data') : data'[i].key /= name
                     /\ \A n \in Keys(data) \ {name} :
                           \E i \in 1..Len(data), j \in 1..Len(data') :
                               data[i].key = n /\ data'[j] = data[i]
                     /\ Len(data') = Len(data) - 1
       /\ \A n \in Names :
            (n \notin Keys(data) /\ n \in Keys(data')) => (op' = "add_record" /\ args'[1] = n)
      ]_vars

\* delete removed an entry and another entry is still in the book.
C6_Witness ==
    /\ op = "delete"
    /\ out.exc = "none"
    /\ Len(data) = 1
    /\ data[1].key /= args[1]
    /\ Len(data[1].rec.phones) > 0

\* C7: days_to_birthday returns None without a birthday, and otherwise the
\* days from today to the next occurrence of the birthday's month and day, a
\* number from 0 to 366.
C7_DaysToBirthday ==
    op = "days_to_birthday" =>
        LET rec == data[CHOOSE i \in 1..Len(data) : data[i].key = args[1]].rec
        IN  IF rec.birthday = None THEN out.exc = "none" /\ out.val = None
            ELSE /\ out.exc = "none"
                 /\ Len(out.val) = 1
                 /\ out.val[1] >= 0
                 /\ out.val[1] <= 366
                 /\ \E o \in Occurrences(rec.birthday[1], today.year)
                              \cup Occurrences(rec.birthday[1], today.year + 1) :
                       /\ o >= ToOrdinal(today)
                       /\ out.val[1] = o - ToOrdinal(today)
                       /\ \A q \in Occurrences(rec.birthday[1], today.year) :
                             q >= ToOrdinal(today) => o = q

\* C8: a successful edit_phone keeps the length of phones, puts new at the
\* index of the first entry equal to old and leaves every other index as it
\* was; it succeeds whenever old is present and new is valid.
C8_EditPhoneInPlace ==
    [][op' = "edit_phone" =>
          LET name == args'[1]
              old == args'[2]
              new == args'[3]
              before == PhonesOf(data, name)
              after == PhonesOf(data', name)
          IN  /\ (old \in Range(before) /\ TenDecimalDigits(new)) => out'.exc = "none"
              /\ out'.exc = "none" =>
                    /\ Len(after) = Len(before)
                    /\ \E k \in 1..Len(before) :
                          /\ before[k] = old
                          /\ \A j \in 1..(k - 1) : before[j] /= old
                          /\ after[k] = new
                          /\ \A j \in 1..Len(before) : j /= k => after[j] = before[j]
      ]_vars

\* edit_phone replaced the first of two entries equal to old.
C8_Witness ==
    /\ op = "edit_phone"
    /\ out.exc = "none"
    /\ args[2] /= args[3]
    /\ PhonesOf(data, args[1]) = <<args[3], args[2]>>

\* C9: every stored phone is a string of exactly 10 decimal digits and every
\* record is stored under its own name.
C9_StoredPhonesAndKeys ==
    \A i \in 1..Len(data) :
        /\ data[i].key = data[i].rec.name
        /\ \A j \in 1..Len(data[i].rec.phones) : TenDecimalDigits(data[i].rec.phones[j])

\* C10: an 'add' command that returns an error leaves the book as it was, and
\* after every command every contact has at least one phone.
C10_FailedAddChangesNothing ==
    [][/\ (op' = "add" /\ out'.val[1] = "Error: ") => data' = data
       /\ op' \in Commands => \A i \in 1..Len(data') : Len(data'[i].rec.phones) >= 1
      ]_vars

\* 'add' of an invalid phone for a new name: refused, and no contact made.
C10_Witness ==
    /\ op = "add"
    /\ out.cause = "validation"
    /\ out.val[1] = "Error: "
    /\ data = <<>>

=============================================================================
